---- MODULE Spec2Model ----
(***************************************************************************)
(* CityFix client (src/unnamed/part_000, with the older variant            *)
(* src/app.js): the state-synchronisation layer.  STATE and the module     *)
(* globals are the variables; every socket listener, form listener,        *)
(* router run and fetch continuation is one atomic step (JavaScript runs   *)
(* each reaction to completion); a request that is awaited sits in         *)
(* `pending` until its response, or its failure, is delivered.             *)
(***************************************************************************)
EXTENDS Integers, Sequences, FiniteSets, TLC

\* ------------------------------------------------------------------ bounds
MaxIssues == 2
MaxPending == 2
MaxPoints == 1
MaxPins == 2
MaxAdminPending == 3
MaxKeys == 3
MaxTicks == 4

\* ----------------------------------------------------------------- domains
Ids == {"a1", "b2"}
Statuses == {"pending", "in-progress", "solved"}
Filters == {"all"} \cup Statuses
UserIds == {"u1", "u2"}
Views == {"home", "map", "report", "leaderboard", "admin"}

\* A coordinate is <<>> when the field is absent and <<n>> when it holds n.
\* a1 lies at (12, 77), b2 has no coordinates, c3 lies on the equator at
\* (0, 77), d4 has a latitude and no longitude.
LatOf(id) == IF id = "a1" THEN <<12>> ELSE IF id = "c3" THEN <<0>>
             ELSE IF id = "d4" THEN <<12>> ELSE <<>>
LngOf(id) == IF id \in {"a1", "c3"} THEN <<77>> ELSE <<>>

Issue(id, st) == [id |-> id, status |-> st, lat |-> LatOf(id), lng |-> LngOf(id)]
Issues == {Issue(i, s) : i \in Ids, s \in Statuses}

NameOf(uid) == IF uid = "u1" THEN "asha" ELSE "ravi"
User(uid, p) == [t |-> "user", id |-> uid, username |-> NameOf(uid), points |-> p]
NoUser == [t |-> "null"]
SessionUsers == {User(u, p) : u \in UserIds, p \in 0..MaxPoints}

\* A parsed JSON value held in a STATE collection: an array, or the object a
\* non-2xx response carries ({"error": ...}).
Arr(s) == [t |-> "array", v |-> s]
ErrorBody == [t |-> "object", error |-> "server error"]
IsArray(x) == x.t = "array"

SeqsUpTo(S, n) == UNION {[1..k -> S] : k \in 0..n}
UniqueIds(s) == \A i, j \in 1..Len(s) : i # j => s[i].id # s[j].id
\* What GET /issues can list: every id at most once.
IssueLists == {s \in SeqsUpTo(Issues, Cardinality(Ids)) : UniqueIds(s)}
IdsOf(s) == {s[i].id : i \in 1..Len(s)}

\* textContent after assigning it the undefined length of a non-array.
Undefined == 0 - 1

VARIABLES
    pc,            \* init(): "load" before the load event, then its awaits, then "done"
    hash,          \* window.location.hash, without the '#'
    issues,        \* STATE.issues
    users,         \* STATE.users
    rewards,       \* STATE.rewards
    currentUser,   \* STATE.currentUser
    isAdmin,       \* STATE.isAdmin
    filter,        \* STATE.filter
    storage,       \* localStorage['cityfix_user']
    mainMap,       \* mainMap is non-null
    issueMarkers,  \* the markers on the main map
    home,          \* DOM of the home view: the counters and the feed
    activeViews,   \* the .view sections with class 'active'
    navActive,     \* the targets of the navigation links with class 'active'
    userUI,        \* DOM of the identity region: guest actions, or name and points
    pointsPopup,   \* the value shown by the last point-gain animation, <<>> for none
    adminDash,     \* the admin dashboard is visible
    adminTable,    \* the rows of the admin issues table
    pending,       \* requests in flight, oldest first
    toasts,        \* showToast calls of the last reaction
    threw,         \* the last reaction ended in an uncaught exception
    last,          \* the event the last reaction handled
    adminUI,       \* DOM of the admin dashboard: the statistics, the users table and
                   \* the options of the two reward selects
    report,        \* the report form and the picker map: the script loaded, the
                   \* coordinate fields, pickerMarker, the pins on the map
    search,        \* the location search: the input, searchTimeout, the timers
    clock          \* the time in ms since the page was loaded

\* The report view before any input: the script of the page, empty coordinate
\* fields, no pin.
ReportInit == [script |-> "part_000", lat |-> "", lng |-> "", pickerMarker |-> FALSE,
               pins |-> 0, redirect |-> FALSE]
\* The admin dashboard as the document ships it: nothing filled in.
AdminInit == [stats |-> <<>>, usersTable |-> <<>>, userSelect |-> <<>>, rewardSelect |-> <<>>]
\* let searchTimeout = null; no timer scheduled, nothing typed, nothing in flight
SearchInit == [value |-> <<>>, searchTimeout |-> 0, timers |-> {}, issued |-> 0,
               inputAt |-> 0, hidden |-> TRUE, loading |-> FALSE,
               suggestions |-> <<>>, inflight |-> <<>>]

vars == <<pc, hash, issues, users, rewards, currentUser, isAdmin, filter, storage,
          mainMap, issueMarkers, home, activeViews, navActive, userUI, pointsPopup,
          adminDash, adminTable, pending, toasts, threw, last, adminUI,
          report, search, clock>>

\* The program state as one record, so that a handler is a function of it.
Cur ==
    [pc |-> pc, hash |-> hash, issues |-> issues, users |-> users, rewards |-> rewards,
     currentUser |-> currentUser, isAdmin |-> isAdmin, filter |-> filter,
     storage |-> storage, mainMap |-> mainMap, issueMarkers |-> issueMarkers,
     home |-> home, activeViews |-> activeViews, navActive |-> navActive,
     userUI |-> userUI, pointsPopup |-> pointsPopup, adminDash |-> adminDash,
     adminTable |-> adminTable, pending |-> pending,
     toasts |-> <<>>, threw |-> FALSE, last |-> last,
     adminUI |-> adminUI, report |-> report, search |-> search, clock |-> clock]

\* The reaction to event e ends in state S.
Becomes(S, e) ==
    /\ pc' = S.pc /\ hash' = S.hash /\ issues' = S.issues /\ users' = S.users
    /\ rewards' = S.rewards /\ currentUser' = S.currentUser /\ isAdmin' = S.isAdmin
    /\ filter' = S.filter /\ storage' = S.storage /\ mainMap' = S.mainMap
    /\ issueMarkers' = S.issueMarkers /\ home' = S.home /\ activeViews' = S.activeViews
    /\ navActive' = S.navActive /\ userUI' = S.userUI /\ pointsPopup' = S.pointsPopup
    /\ adminDash' = S.adminDash /\ adminTable' = S.adminTable
    /\ pending' = S.pending /\ toasts' = S.toasts /\ threw' = S.threw
    /\ adminUI' = S.adminUI
    /\ report' = S.report /\ search' = S.search /\ clock' = S.clock
    /\ last' = e

\* Statement sequencing: F runs unless an earlier statement threw.
Then(S, F(_)) == IF S.threw THEN S ELSE F(S)
Throw(S) == [S EXCEPT !.threw = TRUE]
\* catch (e) { console.error(...) }
Catch(S) == [S EXCEPT !.threw = FALSE]

\* ------------------------------------------------------------- utilities
showToast(S, message, type) ==
    [S EXCEPT !.toasts = Append(@, [msg |-> message, type |-> type])]

\* ------------------------------------------------------------ renderers
Count(arr, st) == Cardinality({i \in 1..Len(arr) : arr[i].status = st})

\* The filter without its 'all' case.
filteredIssuesNoAll(arr, f) == SelectSeq(arr, LAMBDA i : i.status = f)

\* const filteredIssues = STATE.filter === 'all' ? STATE.issues : STATE.issues.filter(...)
filteredIssues(arr, f) ==
    IF f = "all" THEN arr ELSE SelectSeq(arr, LAMBDA i : i.status = f)

\* The in-progress counter taken as "not solved".
homeStatsUnsolved(arr) ==
    [total |-> Len(arr), progress |-> Len(arr) - Count(arr, "solved"),
     solved |-> Count(arr, "solved")]

\* The three counters of renderHome.
homeStats(arr) ==
    [total |-> Len(arr), progress |-> Count(arr, "in-progress"), solved |-> Count(arr, "solved")]

renderHome(S) ==
    IF IsArray(S.issues)
    THEN LET stats == homeStats(S.issues.v)
         IN  [S EXCEPT !.home = [rendered |-> TRUE, total |-> stats.total,
                                 progress |-> stats.progress, solved |-> stats.solved,
                                 feed |-> filteredIssues(S.issues.v, S.filter)]]
    \* .length of an object is undefined, then STATE.issues.filter is not a function
    ELSE Throw([S EXCEPT !.home.rendered = TRUE, !.home.total = Undefined])

Truthy(c) == c # <<>> /\ c[1] # 0

\* Red for 'pending' alone, and a colour of its own for a status not known.
markerColorKnown(status) ==
    IF status = "solved" THEN "green"
    ELSE IF status = "in-progress" THEN "blue"
    ELSE IF status = "pending" THEN "red" ELSE "grey"

markerColor(status) ==
    IF status = "solved" THEN "green"
    ELSE IF status = "in-progress" THEN "blue" ELSE "red"

Marker(issue) == [lat |-> issue.lat, lng |-> issue.lng, color |-> markerColor(issue.status)]

RECURSIVE MarkersOf(_)
MarkersOf(arr) ==
    IF arr = <<>> THEN <<>>
    ELSE (IF Truthy(Head(arr).lat) /\ Truthy(Head(arr).lng)
          THEN <<Marker(Head(arr))>> ELSE <<>>) \o MarkersOf(Tail(arr))

renderMainMap(S) ==
    IF ~S.mainMap THEN S
    ELSE IF IsArray(S.issues)
         THEN [S EXCEPT !.issueMarkers = MarkersOf(S.issues.v)]
         \* the markers are cleared, then STATE.issues.forEach is not a function
         ELSE Throw([S EXCEPT !.issueMarkers = <<>>])

\* ------------------------------------------------------- data fetching
Request(op, cont) == [op |-> op, cont |-> cont]

\* fetchIssues() up to its first await; cont names the caller that awaits it.
fetchIssues(S, cont) == [S EXCEPT !.pending = Append(@, Request("issues", cont))]
fetchLeaderboard(S, cont) == [S EXCEPT !.pending = Append(@, Request("leaderboard", cont))]
fetchRewards(S, cont) == [S EXCEPT !.pending = Append(@, Request("rewards", cont))]

\* How a request ends: the transport fails (fetch rejects), the body of a
\* non-2xx response is no JSON (res.json() rejects), a non-2xx response carries
\* a JSON error object, or a 2xx response carries the list.
Failure == {[kind |-> "network"], [kind |-> "http_text"],
            [kind |-> "http_json", body |-> ErrorBody]}
IssueOutcomes == Failure \cup {[kind |-> "ok", body |-> Arr(b)] : b \in IssueLists}
Rejects(o) == o.kind \in {"network", "http_text"}

\* STATE.issues.push(...json): the response merged into the entries held
assignIssuesMerged(S, json) ==
    [S EXCEPT !.issues = IF IsArray(json) /\ IsArray(@) THEN Arr(json.v \o @.v) ELSE json]

\* STATE.issues = await res.json()
assignIssues(S, json) == [S EXCEPT !.issues = json]

\* fetchIssues() from its await on: the try block, then the catch.
fetchIssuesDone(S, o) ==
    IF Rejects(o) THEN S
    ELSE Catch(renderHome(assignIssues(S, o.body)))

\* ------------------------------------------------- push event listener
\* push in the place of unshift
unshiftAtEnd(arr, x) == Append(arr, x)

\* STATE.issues.unshift(issue)
unshift(arr, x) == <<x>> \o arr

\* find(i => i.id = id): an assignment for the comparison, true of the first entry
findAssigning(arr, id) == IF arr = <<>> THEN 0 ELSE 1

\* STATE.issues.find(i => i.id === id): the index of the first match, 0 for none
find(arr, id) ==
    IF \E i \in 1..Len(arr) : arr[i].id = id
    THEN CHOOSE i \in 1..Len(arr) :
             arr[i].id = id /\ \A j \in 1..(i - 1) : arr[j].id # id
    ELSE 0

\* The entry replaced by a fresh object that holds the id and the status only.
setStatusReplacing(arr, k, st) ==
    [arr EXCEPT ![k] = [id |-> @.id, status |-> st, lat |-> <<>>, lng |-> <<>>]]

\* issue.status = data.status, on the object find returned
setStatus(arr, k, st) == [arr EXCEPT ![k].status = st]

\* Only the first entry with the id removed (splice at its index).
withoutFirst(arr, id) ==
    IF id \in IdsOf(arr)
    THEN LET k == CHOOSE n \in 1..Len(arr) :
                     arr[n].id = id /\ \A m \in 1..(n - 1) : arr[m].id # id
         IN  SubSeq(arr, 1, k - 1) \o SubSeq(arr, k + 1, Len(arr))
    ELSE arr

\* STATE.issues.filter(i => i.id !== id)
without(arr, id) == SelectSeq(arr, LAMBDA i : i.id # id)

renderAdminTable(S) ==
    IF IsArray(S.issues) THEN [S EXCEPT !.adminTable = S.issues.v] ELSE Throw(S)

new_issue(S, issue) ==
    IF ~IsArray(S.issues) THEN Throw(S)
    ELSE LET S1 == [S EXCEPT !.issues = Arr(unshift(@.v, issue))]
         IN  Then(Then(Then(S1, renderHome), renderMainMap),
                  LAMBDA s : showToast(s, "New issue reported!", "info"))

status_updated(S, data) ==
    IF ~IsArray(S.issues) THEN Throw(S)
    ELSE LET k == find(S.issues.v, data.issue_id)
             S1 == IF k # 0
                   THEN Then(Then([S EXCEPT !.issues = Arr(setStatus(@.v, k, data.status))],
                                  renderHome),
                             LAMBDA s : IF s.isAdmin THEN renderAdminTable(s) ELSE s)
                   ELSE S
         IN  Then(S1, LAMBDA s : IF data.points_awarded > 0
                                 THEN showToast(s, "points awarded!", "success")
                                 ELSE s)

issue_deleted(S, data) ==
    IF ~IsArray(S.issues) THEN Throw(S)
    ELSE Then(Then([S EXCEPT !.issues = Arr(without(@.v, data.issue_id))], renderHome),
              renderMainMap)

\* ---------------------------------------------------------------- admin
fetchAdminStats(S) == [S EXCEPT !.pending = Append(@, Request("adminStats", "none"))]
fetchAdminUsers(S) == [S EXCEPT !.pending = Append(@, Request("adminUsers", "none"))]
populateRewardSelects(S) == [S EXCEPT !.pending = Append(@, Request("rewardSelects", "none"))]

\* What GET /admin/stats answers.
StatsBodies == {[t |-> "object", total_issues |-> n] : n \in {0, 1}}
AdminStatsOutcomes == Failure \cup {[kind |-> "ok", body |-> b] : b \in StatsBodies}
AdminUsersOutcomes ==
    Failure \cup {[kind |-> "ok", body |-> Arr(b)] :
                     b \in {<<>>, <<[id |-> "u1", username |-> "asha", points |-> 1]>>}}
ActionOutcomes == Failure \cup {[kind |-> "ok"]}

\* fetchAdminStats() after the await: the fields of an error payload are undefined
fetchAdminStatsDone(S, o) ==
    IF Rejects(o) THEN S
    ELSE [S EXCEPT !.adminUI.stats =
             IF o.kind = "ok" THEN <<o.body.total_issues>> ELSE <<Undefined>>]

\* fetchAdminUsers() after the await: users.map of an object throws inside the try
fetchAdminUsersDone(S, o) ==
    IF Rejects(o) \/ ~IsArray(o.body) THEN S
    ELSE [S EXCEPT !.adminUI.usersTable = o.body.v]

\* populateRewardSelects() after the await: no try block, so a rejection of
\* fetch or of json(), and users.map of an object, reject the promise nobody awaits
populateRewardSelectsDone(S, o) ==
    IF Rejects(o) \/ ~IsArray(o.body) THEN Throw(S)
    ELSE LET S1 == [S EXCEPT !.adminUI.userSelect = o.body.v]
         IN  IF IsArray(S.rewards)
             THEN [S1 EXCEPT !.adminUI.rewardSelect = S.rewards.v]
             ELSE Throw(S1)

renderAdmin(S) ==
    IF ~S.isAdmin THEN [S EXCEPT !.adminDash = FALSE]
    ELSE Then(Then(Then(fetchAdminStats([S EXCEPT !.adminDash = TRUE]), renderAdminTable),
                   fetchAdminUsers),
              populateRewardSelects)

\* What the password field can hold at a submission.
Passwords == {"admin123", "Admin123", "letmein", ""}

\* The submission taken for a match whatever the password.
adminLoginUnchecked(S, pw) ==
    Then(renderAdmin([S EXCEPT !.isAdmin = TRUE]),
         LAMBDA s : showToast(s, "Welcome, Admin!", "success"))

\* adminForm submit
adminLogin(S, pw) ==
    IF pw = "admin123"
    THEN Then(renderAdmin([S EXCEPT !.isAdmin = TRUE]),
              LAMBDA s : showToast(s, "Welcome, Admin!", "success"))
    ELSE showToast(S, "Incorrect password", "danger")

\* click on 'admin-logout'
adminLogout(S) == renderAdmin([S EXCEPT !.isAdmin = FALSE])

\* giveReward() up to the await, with the values of the two selects
giveReward(S, userId, rewardId) ==
    IF userId = "" \/ rewardId = ""
    THEN showToast(S, "Please select a user and reward", "warning")
    ELSE [S EXCEPT !.pending = Append(@, Request("giveReward", "none"))]

giveRewardDone(S, o) ==
    IF Rejects(o) THEN showToast(S, "Server error", "danger")
    ELSE IF o.kind = "ok"
         THEN fetchAdminUsers(populateRewardSelects(
                  showToast(S, "Reward given successfully!", "success")))
         ELSE showToast(S, IF o.body.error # "" THEN o.body.error
                           ELSE "Failed to give reward", "danger")

\* window.updateStatus and window.deleteIssue up to the await
updateStatus(S) == [S EXCEPT !.pending = Append(@, Request("updateStatus", "none"))]
deleteIssue(S) == [S EXCEPT !.pending = Append(@, Request("deleteIssue", "none"))]

\* After 'await fetch(...)': only a rejected fetch reaches the catch block; the
\* response is not looked at.  fetchIssues().then(...) is the "admin" continuation.
updateStatusDone(S, o) ==
    IF o.kind = "network" THEN showToast(S, "Failed to update", "danger")
    ELSE fetchIssues(showToast(S, "Status updated", "success"), "admin")
deleteIssueDone(S, o) ==
    IF o.kind = "network" THEN showToast(S, "Failed to delete", "danger")
    ELSE fetchIssues(showToast(S, "Report deleted", "success"), "admin")

\* fetchIssues().then(() => { renderAdminTable(); fetchAdminStats(); })
adminRefresh(S) == Then(renderAdminTable(S), fetchAdminStats)

\* -------------------------------------------------------------- routing
\* The entry action of 'leaderboard' with fetchRewards() left out.
routerWithoutRewards(S) ==
    LET target == IF S.hash = "" THEN "home" ELSE S.hash
        S1 == [S EXCEPT !.navActive = {target} \cap Views,
                        !.activeViews = {target} \cap Views]
        S2 == IF target = "home" THEN fetchIssues(S1, "none") ELSE S1
        S3 == IF target = "map" /\ S2.mainMap THEN renderMainMap(S2) ELSE S2
        S4 == Then(S3, LAMBDA s : IF target = "admin" THEN renderAdmin(s) ELSE s)
    IN  Then(S4, LAMBDA s : IF target = "leaderboard"
                            THEN fetchLeaderboard(s, "none") ELSE s)

router(S) ==
    LET target == IF S.hash = "" THEN "home" ELSE S.hash
        S1 == [S EXCEPT !.navActive = {target} \cap Views,
                        !.activeViews = {target} \cap Views]
        S2 == IF target = "home" THEN fetchIssues(S1, "none") ELSE S1
        S3 == IF target = "map" /\ S2.mainMap THEN renderMainMap(S2) ELSE S2
        S4 == Then(S3, LAMBDA s : IF target = "admin" THEN renderAdmin(s) ELSE s)
    IN  Then(S4, LAMBDA s : IF target = "leaderboard"
                            THEN fetchRewards(fetchLeaderboard(s, "none"), "none")
                            ELSE s)


\* -------------------------------------------------------------- session
\* The text of a number in JSON.
NumText == <<"0", "1", "2", "3">>
NumOf(txt) == (CHOOSE n \in 1..Len(NumText) : NumText[n] = txt) - 1

\* JSON.stringify(user): the members in insertion order, every value as text
stringify(u) ==
    [t |-> "text",
     json |-> << <<"id", u.id>>, <<"username", u.username>>,
                 <<"points", NumText[u.points + 1]>> >>]

\* JSON.parse(savedUser)
parse(txt) ==
    [t |-> "user", id |-> txt.json[1][2], username |-> txt.json[2][2],
     points |-> NumOf(txt.json[3][2])]

\* localStorage.getItem on a key that is not set
NoItem == [t |-> "absent"]
SavedSessions == {NoItem} \cup {stringify(u) : u \in SessionUsers}

updateUserUI(S) ==
    IF S.currentUser.t = "user"
    THEN [S EXCEPT !.userUI = [guest |-> FALSE, name |-> S.currentUser.username,
                               points |-> S.currentUser.points]]
    ELSE [S EXCEPT !.userUI = [guest |-> TRUE]]

\* if (STATE.currentUser): the comparison of the ids left out
isAnySessionUser(user, data) == user.t = "user"

\* if (STATE.currentUser && STATE.currentUser.id === data.user_id)
isSessionUser(user, data) == user.t = "user" /\ user.id = data.user_id

showPointsAnimation(S, points) == [S EXCEPT !.pointsPopup = <<points>>]

\* The payload's points added to the balance.
points_updatedAdding(S, data) ==
    LET u == [S.currentUser EXCEPT !.points = (@ + data.points) % (MaxPoints + 1)]
        S1 == IF isSessionUser(S.currentUser, data)
              THEN updateUserUI([S EXCEPT !.currentUser = u, !.storage = stringify(u)])
              ELSE S
    IN  fetchLeaderboard(S1, "none")

points_updated(S, data) ==
    LET u == [S.currentUser EXCEPT !.points = data.points]
        S1 == IF isSessionUser(S.currentUser, data)
              THEN LET S2 == updateUserUI([S EXCEPT !.currentUser = u,
                                                    !.storage = stringify(u)])
                   IN  IF Truthy(data.added)
                       THEN showPointsAnimation(S2, data.added[1]) ELSE S2
              ELSE S
    IN  fetchLeaderboard(S1, "none")

\* login-form and register-form submit, up to the await of fetch
login(S) == [S EXCEPT !.pending = Append(@, Request("login", "none"))]
register(S) == [S EXCEPT !.pending = Append(@, Request("register", "none"))]

\* A non-2xx answer may carry no message: data.error is then falsy.
AuthOutcomes ==
    Failure \cup {[kind |-> "http_json", body |-> [t |-> "object", error |-> ""]]}
            \cup {[kind |-> "ok", body |-> [user |-> u]] : u \in SessionUsers}

\* A failed submission taken for a logout.
authDoneClearing(S, o, welcome, failed) ==
    IF o.kind = "ok"
    THEN showToast(updateUserUI([S EXCEPT !.currentUser = o.body.user,
                                          !.storage = stringify(o.body.user)]),
                   welcome, "success")
    ELSE showToast(updateUserUI([S EXCEPT !.currentUser = NoUser, !.storage = NoItem]),
                   failed, "danger")

\* The two submit listeners after their awaits; they differ in their texts.
authDone(S, o, welcome, failed) ==
    IF Rejects(o) THEN showToast(S, "Connection error", "danger")
    ELSE IF o.kind = "ok"
         THEN showToast(updateUserUI([S EXCEPT !.currentUser = o.body.user,
                                               !.storage = stringify(o.body.user)]),
                        welcome, "success")
         \* data.error || 'Login failed'
         ELSE showToast(S, IF o.body.error # "" THEN o.body.error ELSE failed, "danger")

\* logout without localStorage.removeItem
logoutKeepingItem(S) ==
    showToast(updateUserUI([S EXCEPT !.currentUser = NoUser]),
              "Logged out successfully", "info")

logout(S) ==
    showToast(updateUserUI([S EXCEPT !.currentUser = NoUser, !.storage = NoItem]),
              "Logged out successfully", "info")

\* ------------------------------------------- leaderboard and rewards
LeaderboardLists == {<<>>, <<[id |-> "u1", username |-> "asha", points |-> 1]>>}
RewardLists == {<<>>, <<[id |-> "r1", name |-> "badge", points_required |-> 1]>>}
LeaderboardOutcomes ==
    Failure \cup {[kind |-> "ok", body |-> Arr(b)] : b \in LeaderboardLists}
RewardOutcomes == Failure \cup {[kind |-> "ok", body |-> Arr(b)] : b \in RewardLists}

\* renderLeaderboard and renderRewards write DOM regions that nothing else
\* reads; STATE.users.map of an object throws inside the try block.
fetchLeaderboardDone(S, o) == IF Rejects(o) THEN S ELSE [S EXCEPT !.users = o.body]
fetchRewardsDone(S, o) == IF Rejects(o) THEN S ELSE [S EXCEPT !.rewards = o.body]

\* ------------------------------------------------------- initialisation
\* initMainMap(): the map is created, then renderMainMap()
initMainMap(S) == renderMainMap([S EXCEPT !.mainMap = TRUE])

\* init() up to its first await: the saved session, the socket, fetchIssues()
init(S) ==
    LET S1 == IF S.storage.t = "text"
              THEN updateUserUI([S EXCEPT !.currentUser = parse(S.storage)])
              ELSE S
    IN  fetchIssues([S1 EXCEPT !.pc = "fetchIssues"], "init")

\* init() resumes when the request it awaits has ended.
initResume(S, op) ==
    IF op = "issues" THEN fetchLeaderboard([S EXCEPT !.pc = "fetchLeaderboard"], "init")
    ELSE IF op = "leaderboard" THEN fetchRewards([S EXCEPT !.pc = "fetchRewards"], "init")
    ELSE LET S1 == Then(initMainMap(S), router)
         \* an exception in initMainMap rejects init(): router() is never reached
         IN  [S1 EXCEPT !.pc = IF S1.threw THEN "failed" ELSE "done"]

\* ------------------------------------------------------ location search
\* setTimeout(..., 400)
Delay == 400

\* What the search input can hold, character by character.
Typed == {<<"m", "g">>, <<"m", "g", " ">>, <<"m", "g", " ", "r">>, <<"m", "g", "r", "d">>}

\* String.prototype.trim, for the blank as the only white space
RECURSIVE trimStart(_)
trimStart(v) == IF v # <<>> /\ Head(v) = " " THEN trimStart(Tail(v)) ELSE v
RECURSIVE trimEnd(_)
trimEnd(v) ==
    IF v # <<>> /\ v[Len(v)] = " " THEN trimEnd(SubSeq(v, 1, Len(v) - 1)) ELSE v
trim(v) == trimEnd(trimStart(v))

\* clearTimeout(id): a timer that has fired or was cleared is not in the set
clearTimeout(timers, id) == {t \in timers : t.id # id}

\* The listener without its clearTimeout.
inputKeepingTimer(S, v) ==
    LET query == trim(v)
        S1 == [S EXCEPT !.search.value = v, !.search.inputAt = S.clock]
        id == S.search.issued + 1
    IN  IF Len(query) < 3 THEN [S1 EXCEPT !.search.hidden = TRUE]
        ELSE [S1 EXCEPT !.search.issued = id, !.search.searchTimeout = id,
                        !.search.timers = @ \cup {[id |-> id, query |-> query,
                                                   due |-> S.clock + Delay]}]

\* searchInput 'input' listener, the input now holding v
input(S, v) ==
    LET query == trim(v)
        \* if (searchTimeout) clearTimeout(searchTimeout)
        S1 == [S EXCEPT !.search.value = v, !.search.inputAt = S.clock,
                        !.search.timers = IF S.search.searchTimeout # 0
                                          THEN clearTimeout(@, S.search.searchTimeout)
                                          ELSE @]
        id == S.search.issued + 1
    IN  IF Len(query) < 3 THEN [S1 EXCEPT !.search.hidden = TRUE]
        \* searchTimeout = setTimeout(() => searchLocation(query), 400)
        ELSE [S1 EXCEPT !.search.issued = id, !.search.searchTimeout = id,
                        !.search.timers = @ \cup {[id |-> id, query |-> query,
                                                   due |-> S.clock + Delay]}]

\* searchLocation(query) up to the await of fetch
searchLocation(S, query) ==
    [S EXCEPT !.search.loading = TRUE, !.search.inflight = Append(@, query)]

\* How a search ends: places found, none found, or the request failed.
SearchOutcomes == {"places", "empty", "failed"}

\* searchLocation(query) after the await, for the i-th search in flight
searchLocationDone(S, i, o) ==
    [S EXCEPT !.search.inflight = SubSeq(@, 1, i - 1) \o SubSeq(@, i + 1, Len(@)),
              !.search.loading = FALSE, !.search.hidden = FALSE,
              !.search.suggestions = <<[query |-> S.search.inflight[i], shows |-> o]>>]

\* ---------------------------------------------------------- report form
\* Where the picker map can be clicked: the texts the click writes into the
\* fields 'issue-lat' and 'issue-lng'.
Positions == {<<"12.97", "77.59">>, <<"0", "77.59">>}

\* pickerMap.on('click'): the pin is moved to the position and the fields filled
pickerClick(S, pos) ==
    [S EXCEPT !.report.pins = (IF S.report.pickerMarker THEN @ - 1 ELSE @) + 1,
              !.report.pickerMarker = TRUE,
              !.report.lat = pos[1], !.report.lng = pos[2]]

\* submit of 'report-form' in unnamed/part_000, up to the await of fetch
reportSubmit(S) ==
    \* if (!lat || !lng): the empty text is falsy
    IF S.report.lat = "" \/ S.report.lng = ""
    THEN showToast(S, "Please click on the map to select a location", "warning")
    ELSE [S EXCEPT !.pending = Append(@, Request("submit", "none"))]

\* submit of reportForm in app.js, up to the await of fetch: the fields are
\* sent as they are
reportSubmitApp(S) == [S EXCEPT !.pending = Append(@, Request("submit", "none"))]

SubmitOutcomes == Failure \cup {[kind |-> "ok"]}

\* document.getElementById('report-form').reset()
reset(S) == [S EXCEPT !.report.lat = "", !.report.lng = ""]

\* The report put into STATE.issues by the client itself on success.
reportDoneInserting(S, o) ==
    IF o.kind = "ok" /\ IsArray(S.issues)
    THEN [S EXCEPT !.issues = Arr(unshift(@.v, Issue("b2", "pending"))),
                   !.report.redirect = TRUE]
    ELSE S

\* unnamed/part_000, after the await: only res.ok is read, never the body, so
\* only a rejected fetch reaches the catch block
reportDone(S, o) ==
    IF o.kind = "network" THEN showToast(S, "Server error", "danger")
    ELSE IF o.kind = "ok"
    THEN LET S1 == reset(showToast(S, "Issue reported successfully!", "success"))
             \* if (pickerMarker) { pickerMap.removeLayer(pickerMarker); pickerMarker = null }
             S2 == IF S1.report.pickerMarker
                   THEN [S1 EXCEPT !.report.pins = @ - 1, !.report.pickerMarker = FALSE]
                   ELSE S1
             S3 == IF S2.currentUser = NoUser
                   THEN showToast(S2, "Login to earn points for your reports!", "info")
                   ELSE S2
         \* setTimeout(() => window.location.hash = '#home', 1000)
         IN  [S3 EXCEPT !.report.redirect = TRUE]
    ELSE showToast(S, "Failed to submit report", "danger")

\* app.js, after the await
reportDoneApp(S, o) ==
    IF o.kind = "network" THEN showToast(S, "Server error", "danger")
    ELSE IF o.kind = "ok"
    \* marker = null: the handle is dropped, the layer stays on the map
    THEN [reset(showToast(S, "Issue reported successfully!", "success"))
             EXCEPT !.report.pickerMarker = FALSE, !.report.redirect = TRUE]
    ELSE showToast(S, "Failed to submit report", "danger")

\* ------------------------------------------------------------- the events
Remove(q, i) == SubSeq(q, 1, i - 1) \o SubSeq(q, i + 1, Len(q))

Outcomes(op) ==
    IF op = "issues" THEN IssueOutcomes
    ELSE IF op = "leaderboard" THEN LeaderboardOutcomes
    ELSE IF op = "rewards" THEN RewardOutcomes
    ELSE IF op \in {"login", "register"} THEN AuthOutcomes
    ELSE IF op = "submit" THEN SubmitOutcomes
    ELSE IF op = "adminStats" THEN AdminStatsOutcomes
    ELSE IF op \in {"adminUsers", "rewardSelects"} THEN AdminUsersOutcomes
    ELSE IF op \in {"giveReward", "updateStatus", "deleteIssue"} THEN ActionOutcomes
    ELSE Failure

\* The continuation of the function that awaited the request.
Settle(S, op, o) ==
    IF op = "issues" THEN fetchIssuesDone(S, o)
    ELSE IF op = "leaderboard" THEN fetchLeaderboardDone(S, o)
    ELSE IF op = "rewards" THEN fetchRewardsDone(S, o)
    ELSE IF op = "login" THEN authDone(S, o, "Welcome back", "Login failed")
    ELSE IF op = "register" THEN authDone(S, o, "Welcome to CityFix", "Registration failed")
    ELSE IF op = "submit"
    THEN IF S.report.script = "app.js" THEN reportDoneApp(S, o) ELSE reportDone(S, o)
    ELSE IF op = "adminStats" THEN fetchAdminStatsDone(S, o)
    ELSE IF op = "adminUsers" THEN fetchAdminUsersDone(S, o)
    ELSE IF op = "rewardSelects" THEN populateRewardSelectsDone(S, o)
    ELSE IF op = "giveReward" THEN giveRewardDone(S, o)
    ELSE IF op = "updateStatus" THEN updateStatusDone(S, o)
    ELSE IF op = "deleteIssue" THEN deleteIssueDone(S, o)
    ELSE S

PushData == [issue_id : Ids, status : Statuses, points_awarded : {0, 10}]
DeleteData == [issue_id : Ids]
\* added: absent, zero, a gain, or a deduction
PointsData == [user_id : UserIds, points : 0..MaxPoints,
               added : {<<>>, <<0>>, <<1>>, <<0 - 1>>}]

\* window 'load': init()
Load ==
    /\ pc = "load"
    /\ Becomes(init(Cur), [ev |-> "load"])

\* The response to pending request i arrives with outcome o.
Respond(i, o, limit) ==
    /\ i \in 1..Len(pending)
    /\ o \in Outcomes(pending[i].op)
    /\ LET req == pending[i]
           S1 == Settle([Cur EXCEPT !.pending = Remove(@, i)], req.op, o)
           S2 == IF req.cont = "init" THEN initResume(S1, req.op)
                 ELSE IF req.cont = "admin" THEN adminRefresh(S1) ELSE S1
       IN  /\ Len(S2.pending) <= limit
           /\ Becomes(S2, [ev |-> "response", op |-> req.op, kind |-> o.kind])

Response(i, o) == Respond(i, o, MaxPending)

\* The same, in the admin dashboard, whose render alone starts three requests.
AdminResponse(i, o) == Respond(i, o, MaxAdminPending)

\* submit of the admin login form with password pw
AdminSubmit(pw) ==
    /\ pc \in {"done", "failed"}
    /\ ~isAdmin
    /\ LET S == adminLogin(Cur, pw)
       IN  /\ Len(S.pending) <= MaxAdminPending
           /\ Becomes(S, [ev |-> "adminLogin"])

\* click on 'admin-logout'
AdminLogout ==
    /\ isAdmin
    /\ Becomes(adminLogout(Cur), [ev |-> "adminLogout"])

\* click on a status button, or on a confirmed delete button, of a table row
UpdateStatus ==
    /\ adminDash /\ adminTable # <<>>
    /\ Len(pending) < MaxAdminPending
    /\ Becomes(updateStatus(Cur), [ev |-> "updateStatus"])

DeleteIssue ==
    /\ adminDash /\ adminTable # <<>>
    /\ Len(pending) < MaxAdminPending
    /\ Becomes(deleteIssue(Cur), [ev |-> "deleteIssue"])

\* click on the give-reward button with the selects at userId and rewardId
GiveReward(userId, rewardId) ==
    /\ adminDash
    /\ userId \in {""} \cup {adminUI.userSelect[n].id : n \in 1..Len(adminUI.userSelect)}
    /\ rewardId \in {""} \cup {adminUI.rewardSelect[n].id : n \in 1..Len(adminUI.rewardSelect)}
    /\ Len(pending) < MaxAdminPending
    /\ Becomes(giveReward(Cur, userId, rewardId), [ev |-> "giveReward"])

\* socket.on('new_issue')
NewIssue(issue) ==
    /\ pc # "load"
    /\ IsArray(issues) => Len(issues.v) < MaxIssues
    /\ Becomes(new_issue(Cur, issue), [ev |-> "new_issue", id |-> issue.id])

\* socket.on('status_updated')
StatusUpdated(data) ==
    /\ pc # "load"
    /\ Becomes(status_updated(Cur, data), [ev |-> "status_updated", id |-> data.issue_id])

\* socket.on('issue_deleted')
IssueDeleted(data) ==
    /\ pc # "load"
    /\ Becomes(issue_deleted(Cur, data), [ev |-> "issue_deleted", id |-> data.issue_id])

\* socket.on('points_updated')
PointsUpdated(data) ==
    /\ pc # "load"
    /\ Len(pending) < MaxPending
    /\ Becomes(points_updated(Cur, data), [ev |-> "points_updated", id |-> data.user_id])

\* window 'hashchange': router(), the fragment now being h
Navigate(h, limit) ==
    /\ h # hash
    /\ LET S == router([Cur EXCEPT !.hash = h])
       IN  /\ Len(S.pending) <= limit
           /\ Becomes(S, [ev |-> "hashchange"])

HashChange(h) == Navigate(h, MaxPending)

\* The same, with room for the three requests of renderAdmin().
AdminHashChange(h) == Navigate(h, MaxAdminPending)

\* The page is loaded again: the script runs from its top over the document as
\* it ships.  The fragment, localStorage and the script stay; the requests of
\* the page left are abandoned.
Reload ==
    /\ pc \in {"done", "failed"}
    /\ Becomes([Cur EXCEPT !.pc = "load",
                          !.issues = Arr(<<>>), !.users = Arr(<<>>), !.rewards = Arr(<<>>),
                          !.currentUser = NoUser, !.isAdmin = FALSE, !.filter = "all",
                          !.mainMap = FALSE, !.issueMarkers = <<>>,
                          !.home = [rendered |-> FALSE, total |-> 0, progress |-> 0,
                                    solved |-> 0, feed |-> <<>>],
                          !.activeViews = {"home"}, !.navActive = {"home"},
                          !.userUI = [guest |-> TRUE], !.pointsPopup = <<>>,
                          !.adminDash = FALSE, !.adminTable = <<>>, !.pending = <<>>,
                          !.adminUI = AdminInit,
                          !.report = [ReportInit EXCEPT !.script = report.script],
                          !.search = SearchInit, !.clock = 0],
               [ev |-> "script"])

\* a keystroke in the location search, once initPickerMap() has run
Input(v) ==
    /\ pc \in {"done", "failed"}
    /\ v # search.value
    /\ search.issued < MaxKeys
    /\ Becomes(input(Cur, v), [ev |-> "input"])

\* a debounce timer fires, no earlier than it is due
SearchTimer(t) ==
    /\ t \in search.timers
    /\ clock >= t.due
    /\ Becomes(searchLocation([Cur EXCEPT !.search.timers = @ \ {t}], t.query),
               [ev |-> "timer", id |-> t.id])

\* the answer to the i-th search in flight
SearchResponse(i, o) ==
    /\ i \in 1..Len(search.inflight)
    /\ Becomes(searchLocationDone(Cur, i, o), [ev |-> "found"])

\* 200 ms pass
Tick ==
    /\ clock < MaxTicks * 200
    /\ Becomes([Cur EXCEPT !.clock = @ + 200], [ev |-> "tick"])

\* click on the picker map, once initPickerMap() has run
PickerClick(pos) ==
    /\ pc \in {"done", "failed"}
    /\ report.pins < MaxPins
    /\ Becomes(pickerClick(Cur, pos), [ev |-> "pick"])

\* submit of the report form, by the script the page has loaded
ReportSubmit ==
    /\ Len(pending) < MaxPending
    /\ Becomes(IF report.script = "app.js" THEN reportSubmitApp(Cur) ELSE reportSubmit(Cur),
               [ev |-> "submit"])

\* setTimeout(() => window.location.hash = '#home', 1000): the timer of a
\* successful submission fires, and the change of the fragment runs router()
Redirect ==
    /\ report.redirect
    /\ LET S0 == [Cur EXCEPT !.report.redirect = FALSE]
           S == IF hash = "home" THEN S0 ELSE router([S0 EXCEPT !.hash = "home"])
       IN  /\ Len(S.pending) <= MaxPending
           /\ Becomes(S, [ev |-> "redirect"])

\* click on a .filter-btn
FilterClick(f) ==
    /\ Becomes(renderHome([Cur EXCEPT !.filter = f]), [ev |-> "filter"])

\* submit of the login form and of the register form
LoginSubmit ==
    /\ Len(pending) < MaxPending
    /\ Becomes(login(Cur), [ev |-> "login"])

RegisterSubmit ==
    /\ Len(pending) < MaxPending
    /\ Becomes(register(Cur), [ev |-> "register"])

\* click on the logout entry of the profile menu
Logout ==
    /\ currentUser.t = "user"
    /\ Becomes(logout(Cur), [ev |-> "logout"])

\* ------------------------------------------------------- specifications
\* The page as the script leaves it, before the load event.
Init ==
    /\ pc = "load" /\ hash = ""
    /\ issues = Arr(<<>>) /\ users = Arr(<<>>) /\ rewards = Arr(<<>>)
    /\ currentUser = NoUser /\ isAdmin = FALSE /\ filter = "all"
    /\ storage = NoItem
    /\ mainMap = FALSE /\ issueMarkers = <<>>
    /\ home = [rendered |-> FALSE, total |-> 0, progress |-> 0, solved |-> 0, feed |-> <<>>]
    /\ activeViews = {"home"} /\ navActive = {"home"}
    /\ userUI = [guest |-> TRUE] /\ pointsPopup = <<>>
    /\ adminDash = FALSE /\ adminTable = <<>>
    /\ pending = <<>> /\ toasts = <<>> /\ threw = FALSE
    /\ last = [ev |-> "script"]
    /\ report = ReportInit /\ search = SearchInit /\ clock = 0 /\ adminUI = AdminInit

\* Issue synchronisation: the push events and the refetches of the issues.
\* The leaderboard and rewards requests of init() end in a rejection here, which
\* leaves STATE.users and STATE.rewards as they are; SpecLists draws them in full.
SyncOutcomes(op) == IF op = "issues" THEN IssueOutcomes ELSE {o \in Failure : Rejects(o)}

Next ==
    \/ Load
    \/ \E i \in 1..Len(pending) : \E o \in SyncOutcomes(pending[i].op) : Response(i, o)
    \/ \E issue \in Issues : NewIssue(issue)
    \/ \E data \in PushData : StatusUpdated(data)
    \/ \E data \in DeleteData : IssueDeleted(data)

Spec == Init /\ [][Next]_vars

\* The three list fetches of a page load, with every outcome.
NextLists ==
    \/ Load
    \/ \E i \in 1..Len(pending) : \E o \in Outcomes(pending[i].op) : Response(i, o)

SpecLists == Init /\ [][NextLists]_vars

\* The page load for every fragment the address can carry: the script has
\* run, the load event is to come; then init() with every outcome of its
\* three requests, and the responses to the requests router() starts.  In
\* the fair form every request in flight is answered in the end.
InitBoot ==
    \E h \in Views \cup {""} :
        /\ hash = h
        /\ pc = "load"
        /\ issues = Arr(<<>>) /\ users = Arr(<<>>) /\ rewards = Arr(<<>>)
        /\ currentUser = NoUser /\ isAdmin = FALSE /\ filter = "all"
        /\ storage = NoItem
        /\ mainMap = FALSE /\ issueMarkers = <<>>
        /\ home = [rendered |-> FALSE, total |-> 0, progress |-> 0, solved |-> 0,
                   feed |-> <<>>]
        /\ activeViews = {"home"} /\ navActive = {"home"}
        /\ userUI = [guest |-> TRUE] /\ pointsPopup = <<>>
        /\ adminDash = FALSE /\ adminTable = <<>>
        /\ pending = <<>> /\ toasts = <<>> /\ threw = FALSE
        /\ last = [ev |-> "script"]
        /\ report = ReportInit /\ search = SearchInit /\ clock = 0 /\ adminUI = AdminInit

\* The load event fires, and no request stays unanswered for ever: while a
\* request is in flight, the event of a response comes about.
SpecBoot ==
    /\ InitBoot /\ [][NextLists]_vars /\ WF_vars(Load)
    /\ WF_last(/\ pending # <<>>
               /\ last' \in [ev : {"response"},
                             op : {pending[i].op : i \in 1..Len(pending)},
                             kind : {"network", "http_text", "http_json", "ok"}])

\* The session: a page load over a session saved by an earlier visit, the
\* authentication forms, logout and the points push.  The list requests of
\* init() end in a rejection here.
InitSession ==
    \E saved \in SavedSessions :
        /\ storage = saved
        /\ pc = "load" /\ hash = ""
        /\ issues = Arr(<<>>) /\ users = Arr(<<>>) /\ rewards = Arr(<<>>)
        /\ currentUser = NoUser /\ isAdmin = FALSE /\ filter = "all"
        /\ mainMap = FALSE /\ issueMarkers = <<>>
        /\ home = [rendered |-> FALSE, total |-> 0, progress |-> 0, solved |-> 0,
                   feed |-> <<>>]
        /\ activeViews = {"home"} /\ navActive = {"home"}
        /\ userUI = [guest |-> TRUE] /\ pointsPopup = <<>>
        /\ adminDash = FALSE /\ adminTable = <<>>
        /\ pending = <<>> /\ toasts = <<>> /\ threw = FALSE
        /\ last = [ev |-> "script"]
        /\ report = ReportInit /\ search = SearchInit /\ clock = 0 /\ adminUI = AdminInit

\* The feed: the page once init() has completed over an unreachable server
\* (its three requests rejected, the markers drawn, router() run for the empty
\* fragment, whose fetchIssues() is in flight), then the push events, that
\* response, and the filter buttons.
InitFeed ==
    /\ pc = "done" /\ hash = ""
    /\ issues = Arr(<<>>) /\ users = Arr(<<>>) /\ rewards = Arr(<<>>)
    /\ currentUser = NoUser /\ isAdmin = FALSE /\ filter = "all"
    /\ storage = NoItem
    /\ mainMap = TRUE /\ issueMarkers = <<>>
    /\ home = [rendered |-> FALSE, total |-> 0, progress |-> 0, solved |-> 0, feed |-> <<>>]
    /\ activeViews = {"home"} /\ navActive = {"home"}
    /\ userUI = [guest |-> TRUE] /\ pointsPopup = <<>>
    /\ adminDash = FALSE /\ adminTable = <<>>
    /\ pending = <<Request("issues", "none")>> /\ toasts = <<>> /\ threw = FALSE
    /\ last = [ev |-> "response", op |-> "rewards", kind |-> "network"]
    /\ report = ReportInit /\ search = SearchInit /\ clock = 0 /\ adminUI = AdminInit

NextFeed ==
    \/ \E i \in 1..Len(pending) : \E o \in IssueOutcomes : Response(i, o)
    \/ \E issue \in Issues : NewIssue(issue)
    \/ \E data \in PushData : StatusUpdated(data)
    \/ \E data \in DeleteData : IssueDeleted(data)
    \/ \E f \in Filters : FilterClick(f)

SpecFeed == InitFeed /\ [][NextFeed]_vars

\* The map: the page once init() has completed and the fetchIssues() of
\* router() has been answered with an empty list, then push events about
\* issues with and without coordinates, navigation between the map and the
\* report view, and the filter buttons.
MapIds == {"a1", "c3", "d4"}

InitMap ==
    /\ pc = "done" /\ hash = ""
    /\ issues = Arr(<<>>) /\ users = Arr(<<>>) /\ rewards = Arr(<<>>)
    /\ currentUser = NoUser /\ isAdmin = FALSE /\ filter = "all"
    /\ storage = NoItem
    /\ mainMap = TRUE /\ issueMarkers = <<>>
    /\ home = [rendered |-> TRUE, total |-> 0, progress |-> 0, solved |-> 0, feed |-> <<>>]
    /\ activeViews = {"home"} /\ navActive = {"home"}
    /\ userUI = [guest |-> TRUE] /\ pointsPopup = <<>>
    /\ adminDash = FALSE /\ adminTable = <<>>
    /\ pending = <<>> /\ toasts = <<>> /\ threw = FALSE
    /\ last = [ev |-> "response", op |-> "issues", kind |-> "ok"]
    /\ report = ReportInit /\ search = SearchInit /\ clock = 0 /\ adminUI = AdminInit

NextMap ==
    \/ \E i \in MapIds, s \in {"pending", "solved"} : NewIssue(Issue(i, s))
    \/ \E data \in [issue_id : MapIds, status : {"pending", "solved"}, points_awarded : {0}] :
          StatusUpdated(data)
    \/ \E data \in [issue_id : MapIds] : IssueDeleted(data)
    \/ \E h \in {"map", "report"} : HashChange(h)
    \/ \E f \in {"all", "pending"} : FilterClick(f)

SpecMap == InitMap /\ [][NextMap]_vars

\* The report view, under either script of the repository: the page once
\* init() has completed, with or without a session user; then clicks on the
\* picker map, submissions of the form and their responses.
InitReport ==
    \E script \in {"part_000", "app.js"}, u \in {NoUser, User("u1", 0)} :
        /\ pc = "done" /\ hash = "report"
        /\ issues = Arr(<<>>) /\ users = Arr(<<>>) /\ rewards = Arr(<<>>)
        /\ currentUser = u /\ isAdmin = FALSE /\ filter = "all"
        /\ storage = (IF u = NoUser THEN NoItem ELSE stringify(u))
        /\ mainMap = TRUE /\ issueMarkers = <<>>
        /\ home = [rendered |-> TRUE, total |-> 0, progress |-> 0, solved |-> 0,
                   feed |-> <<>>]
        /\ activeViews = {"report"} /\ navActive = {"report"}
        /\ userUI = (IF u = NoUser THEN [guest |-> TRUE]
                     ELSE [guest |-> FALSE, name |-> u.username, points |-> u.points])
        /\ pointsPopup = <<>>
        /\ adminDash = FALSE /\ adminTable = <<>>
        /\ pending = <<>> /\ toasts = <<>> /\ threw = FALSE
        /\ last = [ev |-> "hashchange"]
        /\ report = [ReportInit EXCEPT !.script = script]
        /\ search = SearchInit /\ clock = 0 /\ adminUI = AdminInit

NextReport ==
    \/ \E pos \in Positions : PickerClick(pos)
    \/ ReportSubmit
    \/ \E i \in 1..Len(pending) : \E o \in SubmitOutcomes : Response(i, o)

SpecReport == InitReport /\ [][NextReport]_vars

\* The location search of the report view: keystrokes, the debounce timers,
\* the passing of time and the answers of the geocoder.
NextSearch ==
    \/ \E v \in Typed \cup {<<>>} : Input(v)
    \/ \E t \in search.timers : SearchTimer(t)
    \/ \E i \in 1..Len(search.inflight) : \E o \in SearchOutcomes : SearchResponse(i, o)
    \/ Tick

SpecSearch == InitMap /\ [][NextSearch]_vars

\* The admin view: the page once init() has fetched one issue and one reward
\* and the visitor has navigated to #admin; then the admin login and logout,
\* the buttons of the dashboard, and the responses to its requests.
InitAdmin ==
    /\ pc = "done" /\ hash = "admin"
    /\ issues = Arr(<<Issue("a1", "pending")>>) /\ users = Arr(<<>>)
    /\ rewards = Arr(<<[id |-> "r1", name |-> "badge", points_required |-> 1]>>)
    /\ currentUser = NoUser /\ isAdmin = FALSE /\ filter = "all"
    /\ storage = NoItem
    /\ mainMap = TRUE /\ issueMarkers = <<Marker(Issue("a1", "pending"))>>
    /\ home = [rendered |-> TRUE, total |-> 1, progress |-> 0, solved |-> 0,
               feed |-> <<Issue("a1", "pending")>>]
    /\ activeViews = {"admin"} /\ navActive = {"admin"}
    /\ userUI = [guest |-> TRUE] /\ pointsPopup = <<>>
    /\ adminDash = FALSE /\ adminTable = <<>>
    /\ pending = <<>> /\ toasts = <<>> /\ threw = FALSE
    /\ last = [ev |-> "hashchange"]
    /\ report = ReportInit /\ search = SearchInit /\ clock = 0 /\ adminUI = AdminInit

\* The answers drawn in the admin view: for every request a transport failure,
\* a non-2xx answer and a 2xx answer.
AdminOutcomes(op) ==
    {o \in Outcomes(op) :
        /\ o.kind # "http_text" \/ op = "rewardSelects"
        /\ (op = "issues" /\ o.kind = "ok") => o.body = Arr(<<Issue("a1", "solved")>>)
        /\ (op = "adminStats" /\ o.kind = "ok") => o.body.total_issues = 1
        /\ (op \in {"adminUsers", "rewardSelects"} /\ o.kind = "ok") => o.body.v # <<>>}

NextAdmin ==
    \/ \E pw \in {"admin123", "letmein"} : AdminSubmit(pw)
    \/ AdminLogout
    \/ UpdateStatus
    \/ DeleteIssue
    \/ \E u \in {"", "u1"}, r \in {"", "r1"} : GiveReward(u, r)
    \/ \E i \in 1..Len(pending) : \E o \in AdminOutcomes(pending[i].op) : AdminResponse(i, o)

SpecAdmin == InitAdmin /\ [][NextAdmin]_vars

\* The response to pending request i arrives with outcome o; the event keeps
\* the place the request had among the requests in flight, oldest first.
Refetched(i, o) ==
    /\ i \in 1..Len(pending)
    /\ o \in Outcomes(pending[i].op)
    /\ LET req == pending[i]
           S1 == Settle([Cur EXCEPT !.pending = Remove(@, i)], req.op, o)
           S2 == IF req.cont = "init" THEN initResume(S1, req.op)
                 ELSE IF req.cont = "admin" THEN adminRefresh(S1) ELSE S1
       IN  /\ Len(S2.pending) <= MaxAdminPending
           /\ Becomes(S2, [ev |-> "response", op |-> req.op, kind |-> o.kind, at |-> i])

\* Overlapping refetches of the issues: the admin view of InitAdmin; the admin
\* login, the status and delete buttons, whose success handlers start
\* fetchIssues(), navigation between #home and #admin, whose router starts
\* fetchIssues() for 'home', and the responses, in any order of arrival.  The
\* server answers GET /api/issues with the issue as reported or as solved.
NextRefetch ==
    \/ AdminSubmit("admin123")
    \/ UpdateStatus
    \/ DeleteIssue
    \/ \E h \in {"home", "admin"} : AdminHashChange(h)
    \/ \E i \in 1..Len(pending) :
          \E o \in {x \in Outcomes(pending[i].op) :
                      /\ x.kind \in {"network", "ok"}
                      /\ pending[i].op = "issues" /\ x.kind = "ok"
                            => x.body \in {Arr(<<Issue("a1", "pending")>>),
                                           Arr(<<Issue("a1", "solved")>>)}
                      /\ pending[i].op \in {"adminStats", "adminUsers", "rewardSelects"}
                            => x.kind = "network"} :
              Refetched(i, o)

SpecRefetch == InitAdmin /\ [][NextRefetch]_vars

\* Navigation: the page once init() has completed; then changes of the
\* fragment, to the five views, to the empty fragment and to a fragment that
\* names no view, and the responses to the requests the router starts.
Fragments == Views \cup {"", "settings"}

RouterOutcomes(op) ==
    {o \in Outcomes(op) : o.kind = "ok" => o.body \in {Arr(<<>>), Arr(<<Issue("a1", "solved")>>)}}

NextRouter ==
    \/ \E h \in Fragments : HashChange(h)
    \/ \E i \in 1..Len(pending) : \E o \in RouterOutcomes(pending[i].op) : Response(i, o)

SpecRouter == InitMap /\ [][NextRouter]_vars

\* The admin gate across navigation and page loads: a page load over a saved
\* session or none, the admin login with the right and with a wrong
\* passphrase, the admin logout, navigation between the views, a push that
\* changes a status, a reload of the page, and the responses.
GateIssue == Issue("a1", "pending")
GateOutcomes(op) ==
    {o \in Outcomes(op) :
        /\ o.kind \in {"network", "ok"}
        /\ (op = "issues" /\ o.kind = "ok") => o.body = Arr(<<GateIssue>>)
        /\ (op \in {"leaderboard", "rewards", "adminStats", "rewardSelects"})
           => o.kind = "network"
        /\ (op = "adminUsers" /\ o.kind = "ok") => o.body.v # <<>>}

NextGate ==
    \/ Load
    \/ \E i \in 1..Len(pending) : \E o \in GateOutcomes(pending[i].op) : AdminResponse(i, o)
    \/ \E pw \in Passwords : AdminSubmit(pw)
    \/ AdminLogout
    \/ \E h \in {"admin", "map"} : AdminHashChange(h)
    \/ StatusUpdated([issue_id |-> "a1", status |-> "solved", points_awarded |-> 0])
    \/ Reload

SpecGate == InitSession /\ [][NextGate]_vars

\* The entry actions of the router, in and out of admin mode: the page of the
\* admin view once init() has completed; then the admin login and logout,
\* changes of the fragment to every view, to the empty fragment and to one
\* that names no view, a push that changes a status, and the responses.
NextEntry ==
    \/ AdminSubmit("admin123")
    \/ AdminLogout
    \/ \E h \in Fragments : AdminHashChange(h)
    \/ StatusUpdated([issue_id |-> "a1", status |-> "solved", points_awarded |-> 0])
    \/ \E i \in 1..Len(pending) : \E o \in GateOutcomes(pending[i].op) : AdminResponse(i, o)

SpecEntry == InitAdmin /\ [][NextEntry]_vars

\* The colours of the markers: the page once init() has completed; then
\* pushes of issues and of status changes with the three statuses of the
\* workflow and with one outside it, deletions, and navigation between the
\* map and the report view.
ColourStatuses == Statuses \cup {"rejected"}

NextColour ==
    \/ \E i \in Ids, s \in ColourStatuses : NewIssue(Issue(i, s))
    \/ \E data \in [issue_id : Ids, status : ColourStatuses, points_awarded : {0}] :
          StatusUpdated(data)
    \/ \E data \in DeleteData : IssueDeleted(data)
    \/ \E h \in {"map", "report"} : HashChange(h)

SpecColour == InitMap /\ [][NextColour]_vars

\* A report from the form to the collection: the report view under either
\* script; then clicks on the picker map, submissions and their responses,
\* the redirect to the home view with its refetch, the way back to the
\* report view, and the push of a new issue.
ReportOutcomes(op) == IF op = "submit" THEN SubmitOutcomes ELSE GateOutcomes(op)

NextSubmit ==
    \/ \E pos \in Positions : PickerClick(pos)
    \/ ReportSubmit
    \/ \E i \in 1..Len(pending) : \E o \in ReportOutcomes(pending[i].op) : Response(i, o)
    \/ Redirect
    \/ HashChange("report")
    \/ NewIssue(Issue("b2", "pending"))

SpecSubmit == InitReport /\ [][NextSubmit]_vars

SessionOutcomes(op) ==
    IF op \in {"login", "register"} THEN AuthOutcomes ELSE {o \in Failure : Rejects(o)}

NextSession ==
    \/ Load
    \/ \E i \in 1..Len(pending) : \E o \in SessionOutcomes(pending[i].op) : Response(i, o)
    \/ \E data \in PointsData : PointsUpdated(data)
    \/ LoginSubmit
    \/ RegisterSubmit
    \/ Logout

SpecSession == InitSession /\ [][NextSession]_vars

\* ------------------------------------------------------------ properties
Occurrences(arr, id) == Cardinality({i \in 1..Len(arr) : arr[i].id = id})

\* C1: redelivery of new_issue is idempotent: a new_issue event that follows a
\* new_issue event with the same issue id changes nothing in STATE.issues, which
\* keeps exactly one entry with that id.
C1_RedeliveredNewIssueIsNoOp ==
    [][\A issue \in Issues :
          (last.ev = "new_issue" /\ last.id = issue.id /\ IsArray(issues)
              /\ last'.ev = "new_issue" /\ NewIssue(issue))
          => (issues' = issues /\ Occurrences(issues'.v, issue.id) = 1)]_vars

\* C2: in every reachable state no two entries of STATE.issues share an id.
C2_IssueIdsUnique == IsArray(issues) => UniqueIds(issues.v)

C4_PushDuringRefetchSurvives ==
    [][\A i \in 1..Len(pending) : \A o \in IssueOutcomes :
          (last.ev \in {"new_issue", "status_updated"} /\ IsArray(issues)
              /\ last.id \in IdsOf(issues.v)
              /\ pending[i].op = "issues" /\ o.kind = "ok"
              /\ last'.ev = "response" /\ Response(i, o))
          => LET k == CHOOSE n \in 1..Len(issues.v) :
                          issues.v[n].id = last.id
                          /\ \A m \in 1..(n - 1) : issues.v[m].id # last.id
             IN  /\ last.ev = "new_issue" => last.id \in IdsOf(issues'.v)
                 /\ \A n \in 1..Len(issues'.v) :
                        issues'.v[n].id = last.id
                        => issues'.v[n].status = issues.v[k].status]_vars

\* What the events mean for the collection, stated on the collection alone.
RefPrepend(arr, issue) == [n \in 1..(Len(arr) + 1) |-> IF n = 1 THEN issue ELSE arr[n - 1]]
RefFirst(arr, id) ==
    {n \in 1..Len(arr) : arr[n].id = id /\ \A m \in 1..(n - 1) : arr[m].id # id}
RefStatus(arr, data) ==
    [n \in 1..Len(arr) |->
        IF n \in RefFirst(arr, data.issue_id)
        THEN [id |-> arr[n].id, status |-> data.status, lat |-> arr[n].lat, lng |-> arr[n].lng]
        ELSE arr[n]]
RECURSIVE RefDelete(_, _)
RefDelete(arr, id) ==
    IF arr = <<>> THEN <<>>
    ELSE IF Head(arr).id = id THEN RefDelete(Tail(arr), id)
    ELSE <<Head(arr)>> \o RefDelete(Tail(arr), id)

\* C5: apply order is delivery order.  Every delivered event acts on the
\* collection as the events before it left it: a 2xx refetch response replaces
\* it by exactly the list returned (no merge with the entries held), a push
\* event is applied on top of what is held, and a rejected request, the page
\* load and a filter click leave it as it is.
C5_ApplyOrderIsDeliveryOrder ==
    [][/\ (last'.ev = "response" /\ last'.op = "issues")
          => \A i \in 1..Len(pending) : \A o \in IssueOutcomes :
                (pending[i].op = "issues" /\ last'.kind = o.kind /\ Response(i, o))
                => /\ o.kind = "ok" => issues' = o.body
                   /\ Rejects(o) => issues' = issues
       /\ (last'.ev = "new_issue" /\ IsArray(issues))
          => \A issue \in Issues :
                NewIssue(issue) => issues' = Arr(RefPrepend(issues.v, issue))
       /\ (last'.ev = "status_updated" /\ IsArray(issues))
          => \A data \in PushData :
                StatusUpdated(data) => issues' = Arr(RefStatus(issues.v, data))
       /\ (last'.ev = "issue_deleted" /\ IsArray(issues))
          => \A data \in DeleteData :
                IssueDeleted(data) => issues' = Arr(RefDelete(issues.v, data.issue_id))
       /\ last'.ev \in {"load", "filter"} => issues' = issues]_vars

\* A refetch response, delivered after the page load has completed, has
\* replaced the collection by the two issues it listed.
C5_Witness ==
    /\ IsArray(issues) /\ Len(issues.v) = 2 /\ pc = "done"
    /\ last.ev = "response" /\ last.op = "issues" /\ last.kind = "ok"
    /\ pending = <<>>

\* C6: a failed list operation (the transport fails, or the response is not
\* 2xx) leaves the collection it was to fill exactly as it was.
C6_FailedListFetchKeepsState ==
    [][\A i \in 1..Len(pending) : \A o \in Failure :
          (last'.ev = "response" /\ last'.kind = o.kind /\ Response(i, o))
          => /\ pending[i].op = "issues" => issues' = issues
             /\ pending[i].op = "leaderboard" => users' = users
             /\ pending[i].op = "rewards" => rewards' = rewards]_vars

\* C7: a points_updated event for another user, or with no session user, leaves
\* the session user, the balance shown and the persisted session as they are,
\* and still starts a leaderboard refetch.
C7_ForeignPointsUpdateKeepsSession ==
    [][\A data \in PointsData :
          ((IF currentUser = NoUser THEN TRUE ELSE currentUser.id # data.user_id)
              /\ last'.ev = "points_updated" /\ PointsUpdated(data))
          => /\ currentUser' = currentUser
             /\ storage' = storage
             /\ userUI' = userUI
             /\ pending' = Append(pending, Request("leaderboard", "none"))]_vars

C7_Witness ==
    /\ last.ev = "points_updated" /\ currentUser # NoUser
    /\ last.id # currentUser.id
    /\ Len(pending) > 0 /\ pending[Len(pending)] = Request("leaderboard", "none")

\* The stored text read back member by member.
StoredMatches(txt, u) ==
    /\ txt.t = "text"
    /\ Len(txt.json) = 3
    /\ txt.json[1] = <<"id", u.id>>
    /\ txt.json[2] = <<"username", u.username>>
    /\ txt.json[3][1] = "points"
    /\ \E n \in 0..(Len(NumText) - 1) : NumText[n + 1] = txt.json[3][2] /\ n = u.points

\* C8: after every reaction from the page load on, the stored 'cityfix_user'
\* is the serialisation of STATE.currentUser when a session user is set and is
\* absent when there is none; a points_updated event handled while there is no
\* session user creates neither.
C8_SessionMatchesStorage ==
    /\ [](pc # "load"
          => IF currentUser = NoUser THEN storage = NoItem
             ELSE StoredMatches(storage, currentUser))
    /\ [][\A data \in PointsData :
             (currentUser = NoUser /\ last'.ev = "points_updated" /\ PointsUpdated(data))
             => (currentUser' = NoUser /\ storage' = NoItem)]_vars

\* The session user's balance has been overwritten by a push and persisted.
C8_Witness ==
    /\ last.ev = "points_updated" /\ currentUser # NoUser
    /\ last.id = currentUser.id /\ currentUser.points = MaxPoints
    /\ StoredMatches(storage, currentUser)

\* How many entries of the collection have a status.
RECURSIVE RefCount(_, _)
RefCount(arr, st) ==
    IF arr = <<>> THEN 0
    ELSE (IF Head(arr).status = st THEN 1 ELSE 0) + RefCount(Tail(arr), st)

\* C9: whatever the filter, the counters renderHome has written are those of
\* the whole collection: the number of issues, of issues 'in-progress' and of
\* issues 'solved'.
C9_CountersAreOfWholeCollection ==
    (home.rendered /\ IsArray(issues))
    => /\ home.total = Len(issues.v)
       /\ home.progress = RefCount(issues.v, "in-progress")
       /\ home.solved = RefCount(issues.v, "solved")

C9_Witness ==
    /\ home.rendered /\ IsArray(issues) /\ last.ev = "filter"
    /\ filter = "pending" /\ Len(issues.v) = 2
    /\ home.progress = 1 /\ home.solved = 1 /\ home.feed = <<>>

\* The entries with status f, in collection order; all of them for 'all'.
RECURSIVE RefSubset(_, _)
RefSubset(arr, f) ==
    IF arr = <<>> THEN <<>>
    ELSE (IF f = "all" \/ Head(arr).status = f THEN <<Head(arr)>> ELSE <<>>)
         \o RefSubset(Tail(arr), f)

\* C10: the feed shows, in collection order, exactly the issues whose status is
\* the active filter, or all of them for 'all'; a click on a filter button
\* sets STATE.filter and leaves STATE.issues as it is.
C10_FeedIsFilteredSubset ==
    /\ []((home.rendered /\ IsArray(issues)) => home.feed = RefSubset(issues.v, filter))
    /\ [][\A f \in Filters :
             (last'.ev = "filter" /\ FilterClick(f))
             => /\ filter' = f /\ issues' = issues
                /\ users' = users /\ rewards' = rewards
                /\ currentUser' = currentUser /\ isAdmin' = isAdmin]_vars

C10_Witness ==
    /\ home.rendered /\ IsArray(issues) /\ last.ev = "filter"
    /\ filter = "solved" /\ Len(issues.v) = 2
    /\ Len(home.feed) = 1 /\ home.feed[1] = issues.v[2]

\* An issue whose latitude and longitude are both present.
HasCoordinates(issue) == issue.lat # <<>> /\ issue.lng # <<>>

RECURSIVE RefPlaceable(_)
RefPlaceable(arr) ==
    IF arr = <<>> THEN 0
    ELSE (IF HasCoordinates(Head(arr)) THEN 1 ELSE 0) + RefPlaceable(Tail(arr))

\* The reactions that call renderMainMap() on an initialised map.
DrawsMap ==
    \/ last'.ev \in {"new_issue", "issue_deleted"}
    \/ last'.ev = "hashchange" /\ hash' = "map"

\* C11: no marker leak: after every reaction that calls renderMainMap(), the
\* main map carries exactly as many markers as STATE.issues has issues with
\* both coordinates, whatever was drawn before.
C11_MarkersMatchPlaceableIssues ==
    [][(DrawsMap /\ IsArray(issues'))
       => Len(issueMarkers') = RefPlaceable(issues'.v)]_vars

\* C12: renderMainMap() places a marker at the position of every issue whose
\* latitude and longitude are both present, zero included, and none for an
\* issue that misses one of them; the feed lists every issue the filter
\* admits, placed on the map or not.
C12_MarkerForEveryIssueWithCoordinates ==
    [][(DrawsMap /\ IsArray(issues'))
       => /\ \A n \in 1..Len(issues'.v) :
                HasCoordinates(issues'.v[n])
                => \E m \in 1..Len(issueMarkers') :
                      /\ issueMarkers'[m].lat = issues'.v[n].lat
                      /\ issueMarkers'[m].lng = issues'.v[n].lng
          /\ \A m \in 1..Len(issueMarkers') :
                \E n \in 1..Len(issues'.v) :
                      /\ HasCoordinates(issues'.v[n])
                      /\ issueMarkers'[m].lat = issues'.v[n].lat
                      /\ issueMarkers'[m].lng = issues'.v[n].lng
          /\ home'.feed = RefSubset(issues'.v, filter')]_vars

\* C13: a submission of the report form while the latitude or the longitude
\* field is empty is rejected locally: one warning notification, no request,
\* and STATE and the form as they were.
C13_SubmitWithoutCoordinatesIsRejected ==
    [][((report.lat = "" \/ report.lng = "") /\ last'.ev = "submit" /\ ReportSubmit)
       => /\ pending' = pending
          /\ Len(toasts') = 1 /\ toasts'[1].type = "warning"
          /\ issues' = issues /\ users' = users /\ rewards' = rewards
          /\ currentUser' = currentUser /\ isAdmin' = isAdmin /\ filter' = filter
          /\ report' = report]_vars

\* C14: debounce.  At most one timer is pending, the one scheduled by the last
\* keystroke, for the text the input holds and due one quiet period after
\* that keystroke; every keystroke takes the pending timer away before it can
\* fire, and leaves none for a query of fewer than 3 characters; a search is
\* sent only after a quiet period without keystrokes, with the final text, and
\* leaves no timer behind that could send a second one.
C14_DebounceSendsOneSearch ==
    /\ [](/\ Cardinality(search.timers) <= 1
          /\ \A t \in search.timers :
                /\ t.id = search.searchTimeout
                /\ t.query = trim(search.value)
                /\ t.due = search.inputAt + Delay)
    /\ [][/\ last'.ev = "input"
             => /\ search'.timers \cap search.timers = {}
                /\ Len(trim(search'.value)) < 3 => search'.timers = {}
                /\ search'.inflight = search.inflight
          /\ last'.ev = "timer"
             => /\ clock >= search.inputAt + Delay
                /\ search'.inflight = Append(search.inflight, trim(search.value))
                /\ search'.timers = {}]_vars

\* A second keystroke has come within the quiet period of the first, and the
\* one search sent carries the text of the second.
C14_Witness ==
    /\ last.ev = "timer" /\ last.id = 2
    /\ search.inflight = <<trim(search.value)>>
    /\ search.inputAt < Delay /\ search.inputAt > 0

\* C15: every gateway call site catches its failures: no response that ends in
\* a transport failure or in an unparsable body leaves an uncaught exception
\* or an unhandled rejection behind.
C15_GatewayFailuresAreCaught ==
    [][(last'.ev = "response" /\ last'.kind \in {"network", "http_text"})
       => ~threw']_vars

\* C16: after every router transition exactly one view is active, the one the
\* fragment names, or 'home' when the fragment is empty or names no view; and
\* the highlighted navigation link is the one of that view.
C16_ExactlyOneViewActive ==
    [][last'.ev = "hashchange"
       => LET target == IF hash' \in Views THEN hash' ELSE "home"
          IN  activeViews' = {target} /\ navActive' = {target}]_vars

\* The markers of the issues that have both coordinates, in collection order.
RECURSIVE RefMarkers(_)
RefMarkers(arr) ==
    IF arr = <<>> THEN <<>>
    ELSE (IF HasCoordinates(Head(arr))
          THEN <<[lat |-> Head(arr).lat, lng |-> Head(arr).lng,
                  color |-> IF Head(arr).status = "solved" THEN "green"
                            ELSE IF Head(arr).status = "in-progress" THEN "blue"
                            ELSE "red"]>>
          ELSE <<>>) \o RefMarkers(Tail(arr))

\* The feed and the main map show the collection as the reaction left it.
RenderedAnew ==
    /\ home'.feed = RefSubset(issues'.v, filter')
    /\ home'.total = Len(issues'.v)
    /\ mainMap' => issueMarkers' = RefMarkers(issues'.v)

\* C17: a status_updated event for an id held in STATE.issues sets the status
\* of one entry with that id to the payload's status: length, order, the
\* other entries and the other fields of that entry stay as they were; the
\* same event applied to the result changes nothing further.
C17_StatusUpdateTouchesOnlyStatus ==
    [][(last'.ev = "status_updated" /\ IsArray(issues) /\ last'.id \in IdsOf(issues.v))
       => \A data \in PushData :
          (data.issue_id = last'.id /\ StatusUpdated(data))
          => /\ IsArray(issues') /\ Len(issues'.v) = Len(issues.v)
             /\ \E k \in 1..Len(issues.v) :
                   /\ issues.v[k].id = data.issue_id
                   /\ issues'.v[k].status = data.status
                   /\ issues'.v[k].id = issues.v[k].id
                   /\ issues'.v[k].lat = issues.v[k].lat
                   /\ issues'.v[k].lng = issues.v[k].lng
                   /\ \A n \in 1..Len(issues.v) : n # k => issues'.v[n] = issues.v[n]
             /\ LET again == find(issues'.v, data.issue_id)
                IN  again # 0 /\ setStatus(issues'.v, again, data.status) = issues'.v]_vars

C17_Witness ==
    /\ last.ev = "status_updated" /\ IsArray(issues) /\ Len(issues.v) = 2
    /\ last.id = "a1" /\ issues.v[2].id = "a1" /\ issues.v[2].status = "solved"
    /\ issues.v[2].lat = <<12>> /\ issues.v[1].id = "b2" /\ ~threw

C20_OwnPointsUpdateOverwrites ==
    [][\A data \in PointsData :
          (currentUser # NoUser /\ last'.ev = "points_updated" /\ PointsUpdated(data))
          => (currentUser.id = data.user_id
              => /\ currentUser' = [t |-> "user", id |-> currentUser.id,
                                    username |-> currentUser.username,
                                    points |-> data.points]
                 /\ StoredMatches(storage', currentUser')
                 /\ userUI' = [guest |-> FALSE, name |-> currentUser.username,
                               points |-> data.points]
                 /\ pending' = Append(pending, Request("leaderboard", "none")))]_vars

C20_Witness ==
    /\ last.ev = "points_updated" /\ currentUser # NoUser
    /\ last.id = currentUser.id /\ currentUser.points = 0
    /\ userUI = [guest |-> FALSE, name |-> currentUser.username, points |-> 0]
    /\ storage = stringify(currentUser)
    /\ pending # <<>> /\ pending[Len(pending)] = Request("leaderboard", "none")

\* C21: a status_updated event for an id that STATE.issues does not hold is
\* dropped silently: the reaction shows no notification, whatever the
\* points_awarded of the payload.
C21_UnknownStatusUpdateIsSilent ==
    [][\A data \in PushData :
          (IsArray(issues) /\ data.issue_id \notin IdsOf(issues.v)
              /\ last'.ev = "status_updated" /\ StatusUpdated(data))
          => toasts' = <<>>]_vars

\* C22: an update-status or delete-issue request answered with a non-2xx
\* response is a failure: the reaction shows a failure notification and no
\* success notification.
C22_RejectedAdminActionIsAFailure ==
    [][(last'.ev = "response" /\ last'.op \in {"updateStatus", "deleteIssue"}
           /\ last'.kind \in {"http_text", "http_json"})
       => /\ \E n \in 1..Len(toasts') : toasts'[n].type = "danger"
          /\ \A n \in 1..Len(toasts') : toasts'[n].type # "success"]_vars

\* The requests a reaction has started: those behind the ones in flight before.
Started == {pending'[n].op : n \in (Len(pending) + 1)..Len(pending')}

\* C23: on each activation of the admin view while admin mode is on, the admin
\* issues table and the admin users table are rebuilt from data fetched again
\* during that activation: the activation starts a fetch of the issues and a
\* fetch of the users, and writes neither table from what was held before.
C23_AdminTablesAreRefetched ==
    [][(last'.ev = "hashchange" /\ hash' = "admin" /\ isAdmin)
       => /\ "issues" \in Started /\ "adminUsers" \in Started
          /\ adminTable' = adminTable
          /\ adminUI'.usersTable = adminUI.usersTable]_vars

\* C24: the entry actions of the router.  A transition to 'home' (the empty
\* fragment included) starts a fetch of the issues; to 'leaderboard', a fetch
\* of the leaderboard and a fetch of the rewards; to 'admin', the admin render,
\* which shows the dashboard in admin mode only and then fills it; to 'map',
\* a redraw of the markers of the initialised map; any other fragment starts
\* no request.
C24_RouterEntryActions ==
    [][last'.ev = "hashchange"
       => LET target == IF hash' = "" THEN "home" ELSE hash'
          IN  /\ target = "home"
                 => pending' = Append(pending, Request("issues", "none"))
              /\ target = "leaderboard"
                 => pending' = pending \o <<Request("leaderboard", "none"),
                                             Request("rewards", "none")>>
              /\ target = "admin"
                 => /\ adminDash' = isAdmin
                    /\ Started = IF isAdmin
                                 THEN {"adminStats", "adminUsers", "rewardSelects"}
                                 ELSE {}
                    /\ (isAdmin /\ IsArray(issues)) => adminTable' = issues.v
              /\ (target = "map" /\ mainMap /\ IsArray(issues))
                 => issueMarkers' = RefMarkers(issues.v)
              /\ target \notin {"home", "leaderboard", "admin"}
                 => pending' = pending]_vars

\* The markers, stale after a status push, have been redrawn by the
\* transition to the map.
C24_Witness ==
    /\ last.ev = "hashchange" /\ hash = "map" /\ mainMap
    /\ IsArray(issues) /\ issues.v # <<>> /\ issues.v[1].status = "solved"
    /\ issueMarkers # <<>> /\ issueMarkers[1].color = "green"

\* C25: the admin gate.  STATE.isAdmin is false when the script starts and
\* after the page load, whatever localStorage holds; it becomes true only by
\* a submission of the admin form with the shared passphrase, and false only
\* by the admin logout or by leaving the page; a wrong passphrase leaves it
\* as it is; and after every reaction that calls renderAdmin() the dashboard
\* is visible exactly when STATE.isAdmin is true.
C25_AdminGate ==
    /\ [](pc = "load" => ~isAdmin)
    /\ [][/\ last'.ev \in {"script", "load"} => ~isAdmin'
          /\ (~isAdmin /\ isAdmin') => (last'.ev = "adminLogin" /\ AdminSubmit("admin123"))
          /\ (isAdmin /\ ~isAdmin') => last'.ev \in {"adminLogout", "script"}
          /\ last'.ev = "adminLogout" => ~isAdmin'
          /\ last'.ev = "adminLogin"
             => /\ AdminSubmit("admin123") => isAdmin'
                /\ \A pw \in Passwords \ {"admin123"} :
                      AdminSubmit(pw) => (isAdmin' = isAdmin /\ adminDash' = adminDash)
          /\ (\/ last'.ev \in {"adminLogin", "adminLogout"}
              \/ last'.ev = "hashchange" /\ hash' = "admin"
              \/ last'.ev = "response" /\ pc # "done" /\ pc' = "done" /\ hash' = "admin")
             => adminDash' = isAdmin']_vars

\* The admin has logged in, seen the table, and logged out again.
C25_Witness ==
    /\ last.ev = "adminLogout" /\ ~isAdmin /\ ~adminDash /\ adminTable # <<>>

\* C26: login and register set the session only on success.  A 2xx response
\* makes the returned user the session user and persists it; a non-2xx
\* response or a transport failure leaves STATE.currentUser and the stored
\* session as they were and shows one danger notification, with the server's
\* message when it sent one and a generic text otherwise.
C26_AuthSetsSessionOnlyOnSuccess ==
    [][(last'.ev = "response" /\ last'.op \in {"login", "register"})
       => \A i \in 1..Len(pending) : \A o \in AuthOutcomes :
             (pending[i].op = last'.op /\ o.kind = last'.kind /\ Response(i, o))
             => /\ o.kind = "ok"
                   => /\ currentUser' = o.body.user
                      /\ StoredMatches(storage', o.body.user)
                /\ o.kind # "ok"
                   => /\ currentUser' = currentUser /\ storage' = storage
                      /\ userUI' = userUI
                      /\ Len(toasts') = 1 /\ toasts'[1].type = "danger"
                      /\ toasts'[1].msg =
                            IF o.kind # "http_json" THEN "Connection error"
                            ELSE IF o.body.error # "" THEN o.body.error
                            ELSE IF last'.op = "login" THEN "Login failed"
                            ELSE "Registration failed"]_vars

\* A login was refused by the server while a session user was set: the
\* session is still there.
C26_Witness ==
    /\ last.ev = "response" /\ last.op = "login" /\ last.kind = "http_json"
    /\ currentUser # NoUser /\ storage = stringify(currentUser)
    /\ toasts = <<[msg |-> "Login failed", type |-> "danger"]>>

\* C27: after a successful report submission no pin remains on the picker
\* map and its handle is cleared, so that the picker map never shows more
\* than one pin, whatever clicks follow.
C27_NoPinAfterSubmit ==
    /\ [](report.pins <= 1)
    /\ [][(last'.ev = "response" /\ last'.op = "submit" /\ last'.kind = "ok")
          => (report'.pins = 0 /\ ~report'.pickerMarker)]_vars

\* C28: the submitting client inserts nothing of its own.  The submit handler
\* of the report form, up to its request and after the response, successful
\* or not, leaves STATE.issues and the feed as they are; an issue enters the
\* collection only by a new_issue push or by the response to a fetch of the
\* issues.
C28_NoOptimisticInsert ==
    [][/\ (last'.ev = "submit" \/ (last'.ev = "response" /\ last'.op = "submit"))
          => (issues' = issues /\ home' = home /\ issueMarkers' = issueMarkers)
       /\ (IsArray(issues) /\ IsArray(issues')
             /\ (Len(issues'.v) > Len(issues.v) \/ ~(IdsOf(issues'.v) \subseteq IdsOf(issues.v))))
          => (\/ last'.ev = "new_issue"
              \/ last'.ev = "response" /\ last'.op = "issues")]_vars

\* A submission has succeeded while the collection held an issue, and the
\* collection is as it was: the report is not in it.
C28_Witness ==
    /\ last.ev = "response" /\ last.op = "submit" /\ last.kind = "ok"
    /\ report.redirect /\ IsArray(issues) /\ IdsOf(issues.v) = {"a1"}

\* The colour the specification gives a status.
RefColour(status) ==
    CASE status = "solved" -> "green"
      [] status = "in-progress" -> "blue"
      [] OTHER -> "red"

\* The issues that have a marker: both coordinates present and not zero.
RefDrawn(arr) == SelectSeq(arr, LAMBDA i : HasCoordinates(i) /\ i.lat[1] # 0 /\ i.lng[1] # 0)

\* C29: after every reaction that draws the main map, the colour of each
\* marker is that of the status its issue has at that moment: green for
\* 'solved', blue for 'in-progress', red for every other status, 'pending'
\* included.
C29_MarkerColourFollowsStatus ==
    [][(DrawsMap /\ mainMap' /\ IsArray(issues'))
       => /\ Len(issueMarkers') = Len(RefDrawn(issues'.v))
          /\ \A n \in 1..Len(issueMarkers') :
                issueMarkers'[n].color = RefColour(RefDrawn(issues'.v)[n].status)]_vars

\* The map has been drawn for an issue whose status is outside the workflow
\* and for one in progress: a red marker and a blue one.
C29_Witness ==
    /\ last.ev = "hashchange" /\ hash = "map" /\ IsArray(issues)
    /\ Len(issues.v) = 2 /\ issues.v[1].id = "a1" /\ issues.v[2].id = "a1"
    /\ issues.v[1].status = "rejected" /\ issues.v[2].status = "in-progress"
    /\ issueMarkers = <<[lat |-> <<12>>, lng |-> <<77>>, color |-> "red"],
                        [lat |-> <<12>>, lng |-> <<77>>, color |-> "blue"]>>

\* C30: on a points_updated event for the session user the point-gain
\* animation is started exactly when the payload's added value is greater
\* than 0: it then shows that value, and for a value that is 0, absent or
\* negative the popup stays as it was.
C30_AnimationIffAddedPositive ==
    [][\A data \in PointsData :
          (currentUser # NoUser /\ currentUser.id = data.user_id
              /\ last'.ev = "points_updated" /\ PointsUpdated(data))
          => IF data.added # <<>> /\ data.added[1] > 0
             THEN pointsPopup' = data.added
             ELSE pointsPopup' = pointsPopup]_vars

\* C31: on page load init() runs the route transition for the fragment
\* present at load ('home' for the empty one), and runs it once: when every
\* request is answered in the end, whatever the answers to the three initial
\* requests, init() completes, the view of that fragment is then the active
\* one, and init() does not complete a second time.
C31_InitRunsRouterOnce ==
    /\ <>(pc = "done")
    /\ [][/\ (pc # "done" /\ pc' = "done")
             => (activeViews' = {IF hash = "" THEN "home" ELSE hash} /\ hash' = hash)
          /\ pc = "done" => pc' = "done"]_vars


\* C32: overlapping refetches of the issues converge to the newest data.  When
\* the response to an issues request has set STATE.issues, and the next event
\* is the response to an issues request issued before that one, after which
\* no issues request is in flight, then STATE.issues is still the answer to
\* the request issued last: the late answer to the older request is dropped.
C32_RefetchesConvergeToNewest ==
    [][(/\ last.ev = "response" /\ last.op = "issues" /\ last.kind = "ok"
        /\ last'.ev = "response" /\ last'.op = "issues" /\ last'.at < last.at
        /\ \A n \in 1..Len(pending') : pending'[n].op # "issues")
       => issues' = issues]_vars

\* C33: the main map follows the state: after every completed reaction that
\* changes STATE.issues or the status of an issue (new_issue, status_updated,
\* issue_deleted, a refetch response that is applied), the markers on the main
\* map are those of the issues of STATE.issues that have coordinates, as many
\* and, one by one, in the colour of the status the issue has now.
C33_MarkersFollowState ==
    [][(/\ \/ last'.ev \in {"new_issue", "status_updated", "issue_deleted"}
           \/ last'.ev = "response" /\ last'.op = "issues" /\ last'.kind = "ok"
        /\ issues' # issues /\ IsArray(issues') /\ mainMap' /\ ~threw')
       => /\ Len(issueMarkers') = Len(RefDrawn(issues'.v))
          /\ \A n \in 1..Len(issueMarkers') :
                issueMarkers'[n].color = RefColour(RefDrawn(issues'.v)[n].status)]_vars

\* C34: the results of the location search are shown in request order.  When
\* no debounce timer is left and no search is in flight, so that the text in
\* the input is the query fired last and every search has been answered, the
\* suggestion list on display is the one for that query, whatever the order
\* in which the answers arrived.
C34_SuggestionsOfNewestQuery ==
    (/\ search.inflight = <<>> /\ search.timers = {}
     /\ Len(trim(search.value)) >= 3 /\ search.suggestions # <<>>)
    => search.suggestions[1].query = trim(search.value)

====
